---- MODULE Spec2Model ----
(***************************************************************************)
(* jack_midi_looper: the Looper transport (looper.py), its Pause context   *)
(* manager, the Loop container (loops.py) and the control surface calls    *)
(* of looper_widget.py, as two threads over shared attributes:             *)
(*                                                                         *)
(*   - the control thread (GUI / CLI) runs one call at a time, one Python  *)
(*     statement per step (cpc is the statement it is about to execute);   *)
(*   - the JACK process thread runs process_callback once per audio        *)
(*     block, one statement per step (cbpc).                               *)
(*                                                                         *)
(* In the transport beats are whole numbers and samples_per_beat is an     *)
(* exact fraction.  SampleRate, BlockSize and BpmValues are small host and *)
(* tempo values chosen so that a block holds a whole number of beats:      *)
(* 1 beat at 120 bpm, 3 beats at 360 bpm.                                  *)
(*                                                                         *)
(* SpecLoops is loops.py on its own: read_midi_file and import_dirs over   *)
(* the message sequence of one file, one statement group per step, and a   *)
(* Loop fetched from the stored row.  There time is counted in quarters of *)
(* a second and beats in quarters of a beat, and the beat_offset setter    *)
(* adds as floats of MantissaBits significant bits do.                     *)
(***************************************************************************)
EXTENDS Integers, Sequences, FiniteSets, TLC

\* ------------------------------------------------------------- bounds
MaxLoops == 2       \* loops loaded at once

\* ------------------------------------------------- program constants
INACTIVE == 0
PLAYING  == 1
DEFAULT_BEATS_PER_MINUTE == 120
SampleRate == 20    \* client.samplerate (frames per second)
BlockSize  == 10    \* client.blocksize  (frames per block)
BpmValues  == {360} \* the tempo the control surface sets

None  == -1         \* beats_per_measure = None
Unset == -1         \* an attribute rescale() has not created yet

\* the three behaviours __real_process_callback can name
NullCb == "null"
PlayCb == "play"
StopCb == "stop"

\* --------------------------------------------------------- loop records
\* EVENT_STRUCT: (beat, msg[3])
Ev(b, p) == [beat |-> b, msg |-> <<144, p, 100>>]

\* The rows of the loops table a session can fetch: beats_per_measure and
\* the stored events (sorted by beat).  Row 1 ends on a measure boundary,
\* rows 1 and 2 both have a note at beat 2, row 3 is a file without
\* note-ons.
Catalog ==
  << [beats_per_measure |-> 2, events |-> <<Ev(0, 36), Ev(2, 38)>>],
     [beats_per_measure |-> 2, events |-> <<Ev(2, 36), Ev(3, 42)>>],
     [beats_per_measure |-> 3, events |-> << >>] >>

LoopIds == 1..Len(Catalog)

\* Loop.__init__: play = False
NewLoop(id) == [id |-> id, play |-> FALSE]

LoopBpm(l) == Catalog[l.id].beats_per_measure

LoopEvents(l) == Catalog[l.id].events

\* Loop.last_beat raises IndexError on an empty events array
LastBeatRaises(l) == Len(LoopEvents(l)) = 0

LoopLastBeat(l) == LoopEvents(l)[Len(LoopEvents(l))].beat

\* Loop.events_between: beat >= start and beat < end
EventsBetween(l, start, end) ==
  SelectSeq(LoopEvents(l), LAMBDA e : e.beat >= start /\ e.beat < end)

\* ------------------------------------------------------------- helpers
Max(S) == CHOOSE x \in S : \A y \in S : y <= x

\* math.ceil(a / b) for b > 0
CeilDiv(a, b) == IF a >= 0 THEN (a + b - 1) \div b ELSE -((-a) \div b)

\* int(x) of the quotient a / b, b > 0: truncation toward zero
TruncDiv(a, b) == IF a >= 0 THEN a \div b ELSE -((-a) \div b)

RECURSIVE Flatten(_)
\* np.hstack of a non-empty list of arrays
Flatten(ss) == IF Len(ss) = 0 THEN << >> ELSE Head(ss) \o Flatten(Tail(ss))

\* comparison of two uint8[3] payloads, as numpy compares the remaining
\* fields of a structured array
MsgLess(a, b) ==
  \/ a[1] < b[1]
  \/ a[1] = b[1] /\ a[2] < b[2]
  \/ a[1] = b[1] /\ a[2] = b[2] /\ a[3] < b[3]

\* np.sort(..., order="beat"): beat first, ties by the unspecified fields
EvLess(a, b) == a.beat < b.beat \/ (a.beat = b.beat /\ MsgLess(a.msg, b.msg))

RECURSIVE Insert(_, _)
Insert(e, s) ==
  IF Len(s) = 0 THEN <<e>>
  ELSE IF EvLess(e, Head(s)) THEN <<e>> \o s
  ELSE <<Head(s)>> \o Insert(e, Tail(s))

RECURSIVE SortEvents(_)
SortEvents(s) == IF Len(s) = 0 THEN << >> ELSE Insert(Head(s), SortEvents(Tail(s)))

\* ---------------------------------------------------- loops.py: files
DEFAULT_BEATS_PER_MEASURE == 4
DEFAULT_USECS_PER_BEAT == 500000
USECS_PER_SECOND == 1000000

MaxMsgs == 4        \* messages in an imported file

\* msg.time and the running time are counted in quarters of a second, the
\* beats of imported events in quarters of a beat
Res == 4

\* the msg.time values of a file, in quarters of a second
Deltas == {0, 1, 6}

\* the messages mido yields; fields a message type lacks are 0
NoteOn(d) ==
  [type |-> "note_on", time |-> d, tempo |-> 0, numerator |-> 0,
   denominator |-> 0, note |-> 36]

SetTempo(d, t) ==
  [type |-> "set_tempo", time |-> d, tempo |-> t, numerator |-> 0,
   denominator |-> 0, note |-> 0]

TimeSignature(d, n, m) ==
  [type |-> "time_signature", time |-> d, tempo |-> 0, numerator |-> n,
   denominator |-> m, note |-> 0]

Messages ==
  {NoteOn(d) : d \in Deltas} \cup {SetTempo(d, 1000000) : d \in Deltas}
    \cup {TimeSignature(d, 7, 8) : d \in Deltas}

\* MidiFile(midi_filename): the merged message sequence of a file
Files == UNION {[1..n -> Messages] : n \in 0..MaxMsgs}

\* msg.bytes() of a note_on
Bytes(msg) == <<144, msg.note, 100>>

\* np.zeros(n, EVENT_STRUCT)
Zeros(n) == [k \in 1..n |-> [beat |-> 0, msg |-> <<0, 0, 0>>]]

\* line 178: time / seconds_per_beat, in quarters of a beat
\* (seconds_per_beat = usecs_per_beat / USECS_PER_SECOND)
BeatAt(time, usecs_per_beat) == (time * USECS_PER_SECOND) \div usecs_per_beat

\* line 177: int(time / seconds_per_measure), where seconds_per_measure =
\* seconds_per_beat * beats_per_measure and beats_per_measure is the
\* fraction <<numerator * 4, denominator>> of line 174
MeasureAt(time, usecs_per_beat, bpm_frac) ==
  (time * USECS_PER_SECOND * bpm_frac[2]) \div (Res * usecs_per_beat * bpm_frac[1])

\* line 183: int(beats_per_measure)
IntBpm(bpm_frac) == bpm_frac[1] \div bpm_frac[2]

\* the frame of read_midi_file when no import is running
NoImport ==
  [pc |-> "idle", mid |-> << >>, usecs_per_beat |-> 0,
   beats_per_measure |-> <<0, 1>>, events |-> << >>, time |-> 0,
   ordinal |-> 0, measure |-> 0, i |-> 0]

\* --------------------------------------------------- loops.py: Loop
MantissaBits == 5   \* significant bits of a float (float64 has 53)

Abs(v) == IF v < 0 THEN -v ELSE v

RECURSIVE Ulp(_)
\* the spacing of the floats at magnitude a
Ulp(a) == IF a < 2 ^ MantissaBits THEN 1 ELSE 2 * Ulp(a \div 2)

\* the float nearest to v, ties to the even mantissa
FRound(v) ==
  LET a == Abs(v)
      u == Ulp(a)
      q == a \div u
      r == a % u
      m == IF 2 * r > u \/ (2 * r = u /\ q % 2 = 1) THEN q + 1 ELSE q
  IN  IF v < 0 THEN -(m * u) ELSE m * u

\* float addition and subtraction
FAdd(a, b) == FRound(a + b)

FSub(a, b) == FRound(a - b)

\* the values beat_offset is set to, in quarters of a beat
OffsetValues == {0, 16, 64}

NoLoop == [events |-> << >>, beat_offset |-> 0, play |-> FALSE, fetched |-> FALSE]


VARIABLES
  test,               \* Looper(test=...): FakeClient / FakePort
  loops,              \* Looper.loops
  beats_per_measure,  \* Looper.beats_per_measure
  beat,               \* Looper.beat
  last_beat,          \* Looper.last_beat (the cycle length)
  state,              \* Looper.state
  rpc,                \* Looper.__real_process_callback
  bpm,                \* Looper._bpm
  samples_per_beat,   \* Looper.samples_per_beat
  beats_per_process,  \* Looper.beats_per_process
  alive,              \* the host still calls process_callback
  cbpc,               \* process thread: statement about to run
  lb,                 \* play_process_callback: local last_beat
  lb0,                \* the value line 144 gave last_beat in this block
  evts,               \* play_process_callback: events_this_block
  out,                \* write_midi_event calls of the block in progress,
                      \* since its latest pass began
  cleared,            \* out_port.clear_buffer() ran in the block in progress
  last_offset,        \* offset of the latest write_midi_event call of the
                      \* block in progress
  cop,                \* control thread: the call running (or the last one)
  cpc,                \* control thread: statement about to run
  carg,               \* argument of the running call
  cprev,              \* Pause.previous_state
  cexc,               \* an exception is unwinding out of the with-body
  cres,               \* how the last call ended
  c0,                 \* loops and beats_per_measure when the load was called
  imp,                \* Loops.read_midi_file: the frame of the running import
  table,              \* the rows of the loops table import_dirs has written
  loop                \* a Loop object built by Loops.loop()

vars == <<test, loops, beats_per_measure, beat, last_beat, state, rpc, bpm,
          samples_per_beat, beats_per_process, alive, cbpc, lb, lb0, evts, out,
          cleared, last_offset, cop, cpc, carg, cprev, cexc, cres, c0, imp, table, loop>>

looperVars == <<loops, beats_per_measure, beat, last_beat, state, rpc, bpm,
                samples_per_beat, beats_per_process>>

cbVars == <<alive, cbpc, lb, lb0, evts, out, cleared, last_offset>>

fileVars == <<imp, table, loop>>

ctlVars == <<cop, cpc, carg, cprev, cexc, cres, c0>>

NoSnap == [loops |-> << >>, beats_per_measure |-> None]

\* Looper.rescale with _bpm = b: samples_per_beat as the fraction
\* <<numerator, denominator>>, beats_per_process in whole beats
SamplesPerBeat(b) == <<SampleRate * 60, b>>

BeatsPerProcess(b) == (b * BlockSize) \div (60 * SampleRate)

\* Looper.__init__
Init ==
  /\ test \in BOOLEAN
  /\ loops = << >>
  /\ beats_per_measure = None
  /\ beat = 0
  /\ last_beat = 0
  /\ state = INACTIVE
  /\ rpc = NullCb
  /\ bpm = DEFAULT_BEATS_PER_MINUTE
  /\ samples_per_beat = IF test THEN SamplesPerBeat(DEFAULT_BEATS_PER_MINUTE) ELSE Unset
  /\ beats_per_process = IF test THEN BeatsPerProcess(DEFAULT_BEATS_PER_MINUTE) ELSE Unset
  /\ alive = TRUE
  /\ cbpc = "idle"
  /\ lb = 0
  /\ lb0 = 0
  /\ evts = << >>
  /\ out = << >>
  /\ cleared = FALSE
  /\ last_offset = None
  /\ cop = "none"
  /\ cpc = "idle"
  /\ carg = << >>
  /\ cprev = INACTIVE
  /\ cexc = FALSE
  /\ cres = "none"
  /\ c0 = NoSnap
  /\ imp = NoImport
  /\ table = << >>
  /\ loop = NoLoop


\* ------------------------------------------------------ control thread
\* One step per statement that reads or writes an attribute the process
\* thread also uses (loops, beat, last_beat, state, the installed
\* behaviour, the two rescale() results).  Statements on attributes only
\* the control thread touches (beats_per_measure, _bpm) and the entry of a
\* call are part of the step of the statement that follows or precedes.

\* test=True has no process thread: the script calls process_callback
\* itself, between its calls to the Looper.
CtlMayStep == (~test) \/ cbpc = "idle"

Step(pc) == cpc = pc /\ CtlMayStep

\* the control surface starts a call
Begin(op, arg) ==
  /\ Step("idle")
  /\ cop' = op
  /\ carg' = arg
  /\ c0' = IF op \in {"append", "extend"}
           THEN [loops |-> loops, beats_per_measure |-> beats_per_measure]
           ELSE NoSnap

\* a statement inside the running call
Within(pc) ==
  /\ Step(pc)
  /\ UNCHANGED <<cop, carg, c0>>

\* continue at pc; "ret" returns, or lets a pending exception out
Jump(pc) ==
  IF pc = "ret"
  THEN cpc' = "done" /\ cres' = (IF cexc THEN "IndexError" ELSE "ok")
  ELSE cpc' = pc /\ cres' = cres

\* raise exc to the caller
Raise(exc) == cpc' = "done" /\ cres' = exc

\* the call has returned or raised: its frame is gone
Finish ==
  /\ Step("done")
  /\ cpc' = "idle"
  /\ cop' = "none"
  /\ carg' = << >>
  /\ cprev' = INACTIVE
  /\ cexc' = FALSE
  /\ cres' = "none"
  /\ c0' = NoSnap
  /\ UNCHANGED <<test, fileVars, looperVars, cbVars>>

Loaded == {loops[i].id : i \in DOMAIN loops}

\* the lists extend_loops is called with: one or two distinct rows
LoopLists ==
  {<<a>> : a \in LoopIds} \cup
  {p \in {<<a, b>> : a \in LoopIds, b \in LoopIds} : p[1] # p[2]}

Ids(list) == {list[i] : i \in DOMAIN list}

\* where a nested stop() returns to
AfterStop(op) ==
  CASE op = "append" -> "app_add"
    [] op = "extend" -> "ext_add"
    [] op = "clear"  -> "clr"
    [] OTHER         -> "ret"

\* where remeasure() returns to
AfterRemeasure(op) ==
  IF op \in {"append", "extend"} THEN "pause_exit" ELSE "ret"

\* Looper.stop, line 126, called by the control surface
CallStop ==
  /\ Begin("stop", << >>)
  /\ Jump(IF state = INACTIVE THEN "ret" ELSE "stop_cb")
  /\ UNCHANGED <<cprev, cexc>>
  /\ UNCHANGED <<test, fileVars, looperVars, cbVars>>

\* Looper.clear, line 115: line 126 of the stop() it calls
CallClear ==
  /\ Begin("clear", << >>)
  /\ Jump(IF state = INACTIVE THEN "clr" ELSE "stop_cb")
  /\ UNCHANGED <<cprev, cexc>>
  /\ UNCHANGED <<test, fileVars, looperVars, cbVars>>

\* Pause.__enter__: line 126 of the stop() it calls
StopCheck ==
  /\ Within("stop_chk")
  /\ Jump(IF state = INACTIVE THEN AfterStop(cop) ELSE "stop_cb")
  /\ UNCHANGED <<cprev, cexc>>
  /\ UNCHANGED <<test, fileVars, looperVars, cbVars>>

\* a stop() that drains at once: it also marks the transport INACTIVE
StopInstallDirect ==
  /\ Within("stop_cb")
  /\ rpc' = StopCb
  /\ state' = INACTIVE
  /\ Jump(AfterStop(cop))
  /\ UNCHANGED <<cprev, cexc>>
  /\ UNCHANGED <<test, fileVars, loops, beats_per_measure, beat, last_beat, bpm,
                 samples_per_beat, beats_per_process, cbVars>>

\* Looper.stop, line 129
StopInstall ==
  /\ Within("stop_cb")
  /\ rpc' = StopCb
  /\ Jump(AfterStop(cop))
  /\ UNCHANGED <<cprev, cexc>>
  /\ UNCHANGED <<test, fileVars, loops, beats_per_measure, beat, last_beat, state, bpm,
                 samples_per_beat, beats_per_process, cbVars>>

\* Looper.play, line 132, called by the control surface
CallPlay ==
  /\ Begin("play", << >>)
  /\ Jump(IF state = PLAYING THEN "ret" ELSE "play_cb")
  /\ UNCHANGED <<cprev, cexc>>
  /\ UNCHANGED <<test, fileVars, looperVars, cbVars>>

\* Looper.play, line 135
PlayInstall ==
  /\ Within("play_cb")
  /\ rpc' = PlayCb
  /\ Jump("play_state")
  /\ UNCHANGED <<cprev, cexc>>
  /\ UNCHANGED <<test, fileVars, loops, beats_per_measure, beat, last_beat, state, bpm,
                 samples_per_beat, beats_per_process, cbVars>>

\* Looper.play, line 136
PlaySetState ==
  /\ Within("play_state")
  /\ state' = PLAYING
  /\ Jump("ret")
  /\ UNCHANGED <<cprev, cexc>>
  /\ UNCHANGED <<test, fileVars, loops, beats_per_measure, beat, last_beat, rpc, bpm,
                 samples_per_beat, beats_per_process, cbVars>>

\* an append_loop without the check of lines 65-67
CallAppendUnchecked ==
  \E id \in LoopIds \ Loaded :
    /\ Len(loops) < MaxLoops
    /\ Begin("append", <<id>>)
    /\ Jump("pause_init")
    /\ UNCHANGED <<cprev, cexc>>
    /\ UNCHANGED <<test, fileVars, looperVars, cbVars>>

\* Looper.append_loop, lines 65-67
CallAppend ==
  \E id \in LoopIds \ Loaded :
    /\ Len(loops) < MaxLoops
    /\ Begin("append", <<id>>)
    /\ IF beats_per_measure # None /\ LoopBpm(NewLoop(id)) # beats_per_measure
       THEN Raise("mismatch")
       ELSE Jump("pause_init")
    /\ UNCHANGED <<cprev, cexc>>
    /\ UNCHANGED <<test, fileVars, looperVars, cbVars>>

\* the value line 81 leaves in beats_per_measure
FirstBpm(list) ==
  IF beats_per_measure = None THEN LoopBpm(NewLoop(list[1])) ELSE beats_per_measure

\* Looper.extend_loops, lines 80-84
CallExtend ==
  \E list \in LoopLists :
    /\ Ids(list) \cap Loaded = {}
    /\ Len(loops) + Len(list) <= MaxLoops
    /\ Begin("extend", list)
    /\ beats_per_measure' = FirstBpm(list)
    /\ IF \E i \in DOMAIN list : LoopBpm(NewLoop(list[i])) # FirstBpm(list)
       THEN Raise("mismatch")
       ELSE Jump("pause_init")
    /\ UNCHANGED <<cprev, cexc>>
    /\ UNCHANGED <<test, fileVars, loops, beat, last_beat, state, rpc, bpm,
                   samples_per_beat, beats_per_process, cbVars>>

\* Pause.__init__
PauseInit ==
  /\ Within("pause_init")
  /\ cprev' = state
  /\ Jump("stop_chk")
  /\ UNCHANGED cexc
  /\ UNCHANGED <<test, fileVars, looperVars, cbVars>>

\* Looper.append_loop, lines 69-70
AppendAdd ==
  /\ Within("app_add")
  /\ beats_per_measure' = LoopBpm(NewLoop(carg[1]))
  /\ loops' = Append(loops, NewLoop(carg[1]))
  /\ Jump("rem_meas")
  /\ UNCHANGED <<cprev, cexc>>
  /\ UNCHANGED <<test, fileVars, beat, last_beat, state, rpc, bpm,
                 samples_per_beat, beats_per_process, cbVars>>

\* Looper.extend_loops, line 86
ExtendAdd ==
  /\ Within("ext_add")
  /\ loops' = loops \o [i \in DOMAIN carg |-> NewLoop(carg[i])]
  /\ Jump("rem_meas")
  /\ UNCHANGED <<cprev, cexc>>
  /\ UNCHANGED <<test, fileVars, beats_per_measure, beat, last_beat, state, rpc, bpm,
                 samples_per_beat, beats_per_process, cbVars>>

\* the value remeasure() stores in Looper.last_beat, line 92
Measured(ls, bm) ==
  CeilDiv(Max({LoopLastBeat(ls[i]) : i \in DOMAIN ls}), bm) * bm

\* the body of remeasure() up to line 92, or its lines 96-97
Measure ==
  IF loops = << >>
  THEN /\ beat' = 0
       /\ last_beat' = 0
       /\ Jump(AfterRemeasure(cop'))
       /\ UNCHANGED cexc
  ELSE IF \E i \in DOMAIN loops : LastBeatRaises(loops[i])
  THEN /\ UNCHANGED <<beat, last_beat>>
       /\ IF cop' \in {"append", "extend"}
          THEN cexc' = TRUE /\ Jump("pause_exit")
          ELSE cexc' = cexc /\ Raise("IndexError")
  ELSE /\ last_beat' = Measured(loops, beats_per_measure)
       /\ beat' = beat
       /\ Jump("rem_clamp")
       /\ UNCHANGED cexc

\* Looper.remeasure called by the control surface
CallRemeasure ==
  /\ Begin("remeasure", << >>)
  /\ Measure
  /\ UNCHANGED cprev
  /\ UNCHANGED <<test, fileVars, loops, beats_per_measure, state, rpc, bpm,
                 samples_per_beat, beats_per_process, cbVars>>

\* Looper.remeasure, lines 90-92 and 95-97, called by a load or by
\* loop_select
RemeasureMeasure ==
  /\ Within("rem_meas")
  /\ Measure
  /\ UNCHANGED cprev
  /\ UNCHANGED <<test, fileVars, loops, beats_per_measure, state, rpc, bpm,
                 samples_per_beat, beats_per_process, cbVars>>

\* the value lines 93-94 leave in Looper.beat
Clamped(b, cycle) == IF b > cycle THEN 0 ELSE b

\* Looper.remeasure, lines 93-94
RemeasureClamp ==
  /\ Within("rem_clamp")
  /\ beat' = Clamped(beat, last_beat)
  /\ Jump(AfterRemeasure(cop))
  /\ UNCHANGED <<cprev, cexc>>
  /\ UNCHANGED <<test, fileVars, loops, beats_per_measure, last_beat, state, rpc, bpm,
                 samples_per_beat, beats_per_process, cbVars>>

\* Pause.__exit__, and line 132 of the play() it calls
PauseExit ==
  /\ Within("pause_exit")
  /\ Jump(IF cprev = PLAYING /\ state # PLAYING THEN "play_cb" ELSE "ret")
  /\ UNCHANGED <<cprev, cexc>>
  /\ UNCHANGED <<test, fileVars, looperVars, cbVars>>

\* Looper.clear, lines 116-117
ClearLoops ==
  /\ Within("clr")
  /\ loops' = << >>
  /\ beats_per_measure' = None
  /\ Jump("ret")
  /\ UNCHANGED <<cprev, cexc>>
  /\ UNCHANGED <<test, fileVars, beat, last_beat, state, rpc, bpm,
                 samples_per_beat, beats_per_process, cbVars>>

\* LooperWidget.loop_select, lines 83-85
CallArm ==
  \E i \in DOMAIN loops, flag \in BOOLEAN :
    /\ Begin("arm", <<i, flag>>)
    /\ loops' = [loops EXCEPT ![i].play = flag]
    /\ Jump(IF flag THEN "rem_meas" ELSE "ret")
    /\ UNCHANGED <<cprev, cexc>>
    /\ UNCHANGED <<test, fileVars, beats_per_measure, beat, last_beat, state, rpc, bpm,
                   samples_per_beat, beats_per_process, cbVars>>

\* bpm setter line 55 and Looper.rescale, lines 120-121; the host's
\* blocksize and samplerate callbacks are the case b = bpm
CallSetBpm ==
  \E b \in BpmValues :
    /\ Begin("set_bpm", <<b>>)
    /\ bpm' = b
    /\ samples_per_beat' = SamplesPerBeat(b)
    /\ Jump("bpm_bpp")
    /\ UNCHANGED <<cprev, cexc>>
    /\ UNCHANGED <<test, fileVars, loops, beats_per_measure, beat, last_beat, state, rpc,
                   beats_per_process, cbVars>>

\* Looper.rescale, lines 122-123
RescaleBeats ==
  /\ Within("bpm_bpp")
  /\ beats_per_process' = BeatsPerProcess(bpm)
  /\ Jump("ret")
  /\ UNCHANGED <<cprev, cexc>>
  /\ UNCHANGED <<test, fileVars, loops, beats_per_measure, beat, last_beat, state, rpc,
                 bpm, samples_per_beat, cbVars>>

\* ------------------------------------------------------ process thread
CbStep(pc) == cbpc = pc /\ alive /\ ((~test) \/ cpc = "idle")

\* an except clause that logs the exception and returns to the host
CallbackSwallowed ==
  /\ alive' = alive
  /\ cbpc' = "idle"
  /\ lb' = 0
  /\ lb0' = 0
  /\ evts' = << >>
  /\ out' = << >>
  /\ cleared' = FALSE
  /\ last_offset' = None

\* process_callback, lines 183-192: the behaviour raised; CallbackExit
\* makes the host stop calling back
CallbackExit ==
  /\ alive' = FALSE
  /\ cbpc' = "idle"
  /\ lb' = 0
  /\ lb0' = 0
  /\ evts' = << >>
  /\ out' = << >>
  /\ cleared' = FALSE
  /\ last_offset' = None

\* process_callback with null_process_callback installed
NullBlock ==
  /\ CbStep("idle")
  /\ rpc = NullCb
  /\ UNCHANGED <<alive, cbpc, lb, lb0, evts, out, cleared, last_offset>>
  /\ UNCHANGED <<test, fileVars, looperVars, ctlVars>>

\* process_callback, line 182, with play_process_callback installed
PlayBlockStart ==
  /\ CbStep("idle")
  /\ rpc = PlayCb
  /\ cbpc' = "p_active"
  /\ UNCHANGED <<alive, lb, lb0, evts, out, cleared, last_offset>>
  /\ UNCHANGED <<test, fileVars, looperVars, ctlVars>>

\* process_callback, line 182, with stop_process_callback installed
StopBlockStart ==
  /\ CbStep("idle")
  /\ rpc = StopCb
  /\ cbpc' = "s_sweep"
  /\ UNCHANGED <<alive, lb, lb0, evts, out, cleared, last_offset>>
  /\ UNCHANGED <<test, fileVars, looperVars, ctlVars>>

\* Looper.any_loop_active
AnyLoopActive == \E i \in DOMAIN loops : loops[i].play

\* a playing behaviour without the check of line 142
PlayCheckSkipped ==
  /\ CbStep("p_active")
  /\ cbpc' = "p_window"
  /\ UNCHANGED <<alive, lb, lb0, evts, out, cleared, last_offset>>
  /\ UNCHANGED <<test, fileVars, looperVars, ctlVars>>

\* play_process_callback, line 142
PlayCheckActive ==
  /\ CbStep("p_active")
  /\ cbpc' = IF AnyLoopActive THEN "p_window" ELSE "idle"
  /\ UNCHANGED <<alive, lb, lb0, evts, out, cleared, last_offset>>
  /\ UNCHANGED <<test, fileVars, looperVars, ctlVars>>

\* play_process_callback, lines 143-144
PlayWindow ==
  /\ CbStep("p_window")
  /\ IF beats_per_process = Unset
     THEN CallbackExit
     ELSE /\ lb' = beat + beats_per_process
          /\ lb0' = beat + beats_per_process
          /\ cbpc' = "p_gather"
          /\ cleared' = TRUE
          /\ UNCHANGED <<alive, evts, out, last_offset>>
  /\ UNCHANGED <<test, fileVars, looperVars, ctlVars>>

\* the arrays handed to np.hstack, line 146
Gathered ==
  LET armed == SelectSeq(loops, LAMBDA l : l.play)
  IN  [i \in DOMAIN armed |-> EventsBetween(armed[i], beat, lb)]

\* play_process_callback, lines 146-148 (np.hstack raises on an empty list)
PlayGather ==
  /\ CbStep("p_gather")
  /\ IF Len(Gathered) = 0
     THEN CallbackExit
     ELSE /\ evts' = Flatten(Gathered)
          /\ cbpc' = IF Len(Flatten(Gathered)) > 0 THEN "p_write" ELSE "p_cmp"
          /\ out' = << >>
          /\ UNCHANGED <<alive, lb, lb0, cleared, last_offset>>
  /\ UNCHANGED <<test, fileVars, looperVars, ctlVars>>

\* line 150: int((evt['beat'] - self.beat) * self.samples_per_beat)
Offset(e) == TruncDiv((e.beat - beat) * samples_per_beat[1], samples_per_beat[2])

\* play_process_callback, lines 149-151
PlayWrite ==
  /\ CbStep("p_write")
  /\ LET sorted == SortEvents(evts)
     IN  /\ out' = [i \in DOMAIN sorted |->
                     [offset |-> Offset(sorted[i]), msg |-> sorted[i].msg]]
         /\ last_offset' = Offset(sorted[Len(sorted)])
  /\ evts' = << >>
  /\ cbpc' = "p_cmp"
  /\ UNCHANGED <<alive, lb, lb0, cleared>>
  /\ UNCHANGED <<test, fileVars, looperVars, ctlVars>>

\* play_process_callback, line 152
PlayCompare ==
  /\ CbStep("p_cmp")
  /\ cbpc' = IF lb < last_beat THEN "p_adv" ELSE "p_sub"
  /\ UNCHANGED <<alive, lb, lb0, evts, out, cleared, last_offset>>
  /\ UNCHANGED <<test, fileVars, looperVars, ctlVars>>

\* play_process_callback, lines 153-154
PlayAdvance ==
  /\ CbStep("p_adv")
  /\ beat' = lb
  /\ lb' = 0
  /\ lb0' = 0
  /\ cbpc' = "idle"
  /\ out' = << >>
  /\ cleared' = FALSE
  /\ last_offset' = None
  /\ UNCHANGED <<alive, evts>>
  /\ UNCHANGED <<test, fileVars, loops, beats_per_measure, last_beat, state, rpc, bpm,
                 samples_per_beat, beats_per_process, ctlVars>>

\* play_process_callback, line 155
PlaySubtract ==
  /\ CbStep("p_sub")
  /\ lb' = lb - last_beat
  /\ cbpc' = "p_zero"
  /\ UNCHANGED <<alive, lb0, evts, out, cleared, last_offset>>
  /\ UNCHANGED <<test, fileVars, looperVars, ctlVars>>

\* play_process_callback, line 156
PlayWrap ==
  /\ CbStep("p_zero")
  /\ beat' = 0
  /\ cbpc' = "p_gather"
  /\ UNCHANGED <<alive, lb, lb0, evts, out, cleared, last_offset>>
  /\ UNCHANGED <<test, fileVars, loops, beats_per_measure, last_beat, state, rpc, bpm,
                 samples_per_beat, beats_per_process, ctlVars>>

\* the message stop_process_callback writes for one channel: line 163
\* builds bytearray.fromhex('B07B'), line 166 adds the channel to msg[0]
SweepMsg(channel) == <<176 + channel, 123>>

\* the 16 writes of lines 164-166
Sweep == [k \in 1..16 |-> [offset |-> 0, msg |-> SweepMsg(k - 1)]]

\* FakePort.write_midi_event formats tup[0], tup[1], tup[2]
FakePortRaises(msg) == Len(msg) < 3

\* stop_process_callback, lines 162-166
StopSweep ==
  /\ CbStep("s_sweep")
  /\ IF test /\ FakePortRaises(SweepMsg(0))
     THEN CallbackExit
     ELSE /\ out' = Sweep
          /\ cleared' = TRUE
          /\ last_offset' = 0
          /\ cbpc' = "s_beat"
          /\ UNCHANGED <<alive, lb, lb0, evts>>
  /\ UNCHANGED <<test, fileVars, looperVars, ctlVars>>

\* stop_process_callback, line 167
StopResetBeat ==
  /\ CbStep("s_beat")
  /\ beat' = 0
  /\ cbpc' = "s_cb"
  /\ UNCHANGED <<alive, lb, lb0, evts, out, cleared, last_offset>>
  /\ UNCHANGED <<test, fileVars, loops, beats_per_measure, last_beat, state, rpc, bpm,
                 samples_per_beat, beats_per_process, ctlVars>>

\* stop_process_callback, line 168
StopInstallNull ==
  /\ CbStep("s_cb")
  /\ rpc' = NullCb
  /\ cbpc' = "s_state"
  /\ UNCHANGED <<alive, lb, lb0, evts, out, cleared, last_offset>>
  /\ UNCHANGED <<test, fileVars, loops, beats_per_measure, beat, last_beat, state, bpm,
                 samples_per_beat, beats_per_process, ctlVars>>

\* stop_process_callback, line 169
StopSetInactive ==
  /\ CbStep("s_state")
  /\ state' = INACTIVE
  /\ cbpc' = "idle"
  /\ out' = << >>
  /\ cleared' = FALSE
  /\ last_offset' = None
  /\ UNCHANGED <<alive, lb, lb0, evts>>
  /\ UNCHANGED <<test, fileVars, loops, beats_per_measure, beat, last_beat, rpc, bpm,
                 samples_per_beat, beats_per_process, ctlVars>>

\* ------------------------------------------- loops.py: import and Loop
\* import_dirs, line 131, on a directory that holds one .mid file, and
\* read_midi_file, lines 151-156
ImportFile ==
  /\ imp.pc = "idle"
  /\ table = << >>
  /\ \E f \in Files :
    /\ imp' = [NoImport EXCEPT !.pc = "count", !.mid = f,
                               !.usecs_per_beat = DEFAULT_USECS_PER_BEAT,
                               !.beats_per_measure = <<DEFAULT_BEATS_PER_MEASURE, 1>>]
    /\ UNCHANGED <<table, loop>>
    /\ UNCHANGED <<test, looperVars, cbVars, ctlVars>>

\* lines 158-161
NoteCount(mid) == Cardinality({k \in DOMAIN mid : mid[k].type = "note_on"})

\* read_midi_file, lines 158-167
CountNotes ==
  /\ imp.pc = "count"
  /\ imp' = [imp EXCEPT !.pc = "scan", !.events = Zeros(NoteCount(imp.mid)),
                        !.i = 1]
  /\ UNCHANGED <<table, loop>>
  /\ UNCHANGED <<test, looperVars, cbVars, ctlVars>>

\* one pass of the loop of lines 168-182 over msg, in the frame f
Scanned(f, msg) ==
  LET g == CASE msg.type = "set_tempo" ->
                  [f EXCEPT !.usecs_per_beat = msg.tempo]
             [] msg.type = "time_signature" ->
                  [f EXCEPT !.beats_per_measure =
                              <<msg.numerator * 4, msg.denominator>>]
             [] msg.type = "note_on" ->
                  [f EXCEPT !.measure = MeasureAt(f.time, f.usecs_per_beat,
                                                  f.beats_per_measure),
                            !.events[f.ordinal + 1] =
                              [beat |-> BeatAt(f.time, f.usecs_per_beat),
                               msg |-> Bytes(msg)],
                            !.ordinal = f.ordinal + 1]
             [] OTHER -> f
  IN  [g EXCEPT !.time = f.time + msg.time, !.i = f.i + 1]

\* read_midi_file, lines 168-182: the next message of the file
ReadMessage ==
  /\ imp.pc = "scan"
  /\ imp.i <= Len(imp.mid)
  /\ imp' = Scanned(imp, imp.mid[imp.i])
  /\ UNCHANGED <<table, loop>>
  /\ UNCHANGED <<test, looperVars, cbVars, ctlVars>>

\* read_midi_file, line 183: beats_per_measure, measures, events (the
\* pitches go to a table of their own)
Result(f) ==
  [beats_per_measure |-> IntBpm(f.beats_per_measure),
   measures |-> f.measure + 1,
   events |-> f.events]

\* read_midi_file, line 183, and import_dirs, lines 132-137
StoreRow ==
  /\ imp.pc = "scan"
  /\ imp.i > Len(imp.mid)
  /\ table' = Append(table, Result(imp))
  /\ imp' = NoImport
  /\ UNCHANGED loop
  /\ UNCHANGED <<test, looperVars, cbVars, ctlVars>>

\* Loops.loop, lines 207-210, and Loop.__init__
FetchLoop ==
  /\ table # << >>
  /\ ~loop.fetched
  /\ loop' = [events |-> table[1].events, beat_offset |-> 0, play |-> FALSE,
              fetched |-> TRUE]
  /\ UNCHANGED <<imp, table>>
  /\ UNCHANGED <<test, looperVars, cbVars, ctlVars>>

\* Loop.beat_offset setter, lines 52-53
Shifted(l, val) ==
  [l EXCEPT !.events = [k \in DOMAIN l.events |->
                          [l.events[k] EXCEPT
                             !.beat = FAdd(@, FSub(val, l.beat_offset))]],
            !.beat_offset = val]

SetBeatOffset ==
  /\ loop.fetched
  /\ \E val \in OffsetValues :
    /\ loop' = Shifted(loop, val)
    /\ UNCHANGED <<imp, table>>
    /\ UNCHANGED <<test, looperVars, cbVars, ctlVars>>

\* loop.play = state (looper_widget.py, line 83)
SetPlay ==
  /\ loop.fetched
  /\ \E flag \in BOOLEAN :
    /\ loop' = [loop EXCEPT !.play = flag]
    /\ UNCHANGED <<imp, table>>
    /\ UNCHANGED <<test, looperVars, cbVars, ctlVars>>

\* ------------------------------------------------------- specification
Control ==
  \/ Finish
  \/ CallPlay \/ CallStop \/ CallClear \/ CallRemeasure
  \/ CallAppend \/ CallExtend \/ CallArm \/ CallSetBpm
  \/ StopCheck \/ StopInstall \/ PlayInstall \/ PlaySetState
  \/ PauseInit \/ AppendAdd \/ ExtendAdd
  \/ RemeasureMeasure \/ RemeasureClamp \/ PauseExit
  \/ ClearLoops \/ RescaleBeats

Process ==
  \/ NullBlock \/ PlayBlockStart \/ StopBlockStart
  \/ PlayCheckActive \/ PlayWindow \/ PlayGather \/ PlayWrite
  \/ PlayCompare \/ PlayAdvance \/ PlaySubtract \/ PlayWrap
  \/ StopSweep \/ StopResetBeat \/ StopInstallNull \/ StopSetInactive

Next == Control \/ Process

Spec == Init /\ [][Next]_vars

\* loops.py on its own: one file imported, one Loop fetched and shifted
NextLoops ==
  \/ ImportFile \/ CountNotes \/ ReadMessage \/ StoreRow
  \/ FetchLoop \/ SetBeatOffset \/ SetPlay

SpecLoops == Init /\ [][NextLoops]_vars


\* ----------------------------------------------------------- properties
PlayPcs == {"p_active", "p_window", "p_gather", "p_write", "p_cmp", "p_adv",
            "p_sub", "p_zero"}

StopPcs == {"s_sweep", "s_beat", "s_cb", "s_state"}

LoadOps == {"append", "extend"}

\* a load that found the transport PLAYING returns normally
LoadReturnsFromPlaying ==
  /\ cop \in LoadOps
  /\ cprev = PLAYING
  /\ cpc # "done"
  /\ cpc' = "done"
  /\ cres' = "ok"

\* C1: when append_loop / extend_loops was called with the transport
\* PLAYING and returns normally, the playing behaviour is the one installed
\* and the state is PLAYING, so that the blocks after the call are playing
\* blocks and none of them is the all-notes-off drain.
C1_RestoredAfterLoad ==
  [][LoadReturnsFromPlaying => (rpc' = PlayCb /\ state' = PLAYING)]_vars

\* the sweep as the stop scenario describes it: (0xB0+k, 0x7B, 0x00) at
\* sample offset 0 for k = 0..15
AllNotesOff == [k \in 1..16 |-> [offset |-> 0, msg |-> <<176 + (k - 1), 123, 0>>]]

\* C2: the block that drains a stop() has written exactly the 16 messages
\* (0xB0+k, 0x7B, 0x00), k = 0..15 in this order, at sample offset 0, and
\* ends with beat = 0 and state = INACTIVE.
C2_StopSweep ==
  [][(cbpc = "s_state" /\ cbpc' = "idle")
       => (out = AllNotesOff /\ beat' = 0 /\ state' = INACTIVE)]_vars

\* a step of the control thread inside a stop() call of the control surface
StopCallStep == (cop = "stop" \/ cop' = "stop") /\ cpc' # cpc

\* C3: stop() is a request only.  No step of a stop() call writes to the
\* sink or changes beat, state, the loops or the cycle length, and none
\* moves the process thread: a block in progress goes on where it was.
\* The transition to INACTIVE is made by the last statement of the drain
\* block and by nothing else.
C3_StopIsTwoPhase ==
  [][/\ StopCallStep =>
          /\ out' = out /\ beat' = beat /\ state' = state
          /\ loops' = loops /\ last_beat' = last_beat
          /\ cbpc' = cbpc /\ lb' = lb /\ evts' = evts /\ alive' = alive
     /\ (state = PLAYING /\ state' = INACTIVE) =>
          (cbpc = "s_state" /\ cbpc' = "idle")]_vars

\* stop() has returned with the drain requested, while the playing block
\* that was in progress is still running and the state is still PLAYING
C3_Witness ==
  /\ cop = "stop" /\ cpc = "done"
  /\ rpc = StopCb /\ state = PLAYING
  /\ cbpc = "p_write"

\* C4: a load rejected for a beats_per_measure mismatch leaves the loops
\* and Looper.beats_per_measure as they were when it was called.
C4_RejectionIsAtomic ==
  (cpc = "done" /\ cres = "mismatch")
    => (loops = c0.loops /\ beats_per_measure = c0.beats_per_measure)

\* the control thread is between the first and the last write of a load
MidMutation == cop \in LoadOps /\ cpc \in {"rem_meas", "rem_clamp"}

\* C5: no playing block is in progress while a load is between its first
\* and its last write to loops, beats_per_measure, last_beat and beat.
C5_NoPlayingBlockDuringLoad == MidMutation => cbpc \notin PlayPcs

\* C6: every sample offset a playing block hands to the sink is in
\* 0 .. BlockSize - 1.
C6_OffsetsInBlock ==
  cbpc \in PlayPcs => \A i \in DOMAIN out : out[i].offset \in 0..(BlockSize - 1)

\* C7: every loaded loop has the Looper's beats_per_measure.
C7_OneBeatsPerMeasure ==
  \A i \in DOMAIN loops : LoopBpm(loops[i]) = beats_per_measure

\* a load has just been rejected by a Looper that holds a loop
C7_Witness == Len(loops) >= 1 /\ cpc = "done" /\ cres = "mismatch"

\* last_beat of a loop as the data model defines it: 0 without events
SpecLastBeat(l) == IF Len(LoopEvents(l)) = 0 THEN 0 ELSE LoopLastBeat(l)

\* the cycle length the data model derives from the loaded loops
SpecCycleLength ==
  IF loops = << >> THEN 0
  ELSE CeilDiv(Max({SpecLastBeat(loops[i]) : i \in DOMAIN loops}),
               beats_per_measure) * beats_per_measure

\* C8: whenever no control call is in progress, last_beat is the smallest
\* multiple of beats_per_measure >= the largest last_beat of the loaded
\* loops, and 0 when no loop is loaded.
C8_CycleLengthIsDerived == cpc = "idle" => last_beat = SpecCycleLength

\* C9: whenever neither a call nor a block is in progress,
\* 0 <= beat < last_beat, and beat = 0 when last_beat = 0.
C9_BeatInCycle ==
  (cpc = "idle" /\ cbpc = "idle") =>
     IF last_beat > 0 THEN 0 <= beat /\ beat < last_beat ELSE beat = 0

\* C10: a block writes nothing to the sink at a moment the state is
\* INACTIVE.
C10_SilentWhileInactive ==
  [][(state = INACTIVE /\ cbpc \in {"p_write", "s_sweep"} /\ cbpc' # cbpc)
       => out' = << >>]_vars

\* C11: every all-notes-off sweep drains a PLAYING transport, so that the
\* stop() calls of one playing period are followed by one sweep and then by
\* silent blocks; and stop() called when the state is INACTIVE returns at
\* once and leaves the installed behaviour as it is.
C11_StopIsIdempotent ==
  [][/\ (cbpc = "idle" /\ cbpc' = "s_sweep") => state = PLAYING
     /\ (cpc = "idle" /\ cop' = "stop" /\ state = INACTIVE)
          => (cpc' = "done" /\ rpc' = rpc)]_vars

\* C12: a playing block that found a loop armed does not fail where it
\* gathers the events of the armed loops, whatever the control thread did
\* to the armed flags of the loaded loops since the block's check.
C12_ArmingNeverAbortsBlock ==
  [][(cbpc = "p_gather" /\ loops # << >> /\ cbpc' # cbpc) => alive']_vars

\* the statement the process thread is about to run raises
BehaviourRaises ==
  \/ cbpc = "p_window" /\ beats_per_process = Unset
  \/ cbpc = "p_gather" /\ Len(Gathered) = 0
  \/ cbpc = "s_sweep" /\ test /\ FakePortRaises(SweepMsg(0))

\* C13: when the installed behaviour raises, process_callback ends the
\* block with CallbackExit (the host stops calling back) and this leaves
\* loops, beat and state as the behaviour left them; and the host is told
\* to stop for no other reason.
C13_ExceptionsBecomeCallbackExit ==
  [][/\ (BehaviourRaises /\ cbpc' # cbpc)
          => /\ ~alive' /\ cbpc' = "idle"
             /\ loops' = loops /\ beat' = beat /\ state' = state
     /\ (alive /\ ~alive') => BehaviourRaises]_vars

\* a block of a PLAYING transport has failed and the host has stopped
\* calling back
C13_Witness == ~alive /\ state = PLAYING /\ loops # << >>

\* the beats of a sequence of events
Beats(events) == [k \in DOMAIN events |-> events[k].beat]

\* the payloads of a sequence of events
Msgs(events) == [k \in DOMAIN events |-> events[k].msg]

\* C14: for a fetched Loop, setting beat_offset to the value it has leaves
\* the beats as they are; whenever beat_offset is 0 the beats are those of
\* the stored row; and setting it changes neither the payloads, the number
\* or order of the events, nor the armed flag.
C14_OffsetLaw ==
  [][(loop.fetched /\ (loop'.beat_offset # loop.beat_offset
                         \/ loop'.events # loop.events))
       => /\ loop'.beat_offset = loop.beat_offset => loop'.events = loop.events
          /\ loop'.beat_offset = 0 => Beats(loop'.events) = Beats(table[1].events)
          /\ Msgs(loop'.events) = Msgs(loop.events)
          /\ loop'.play = loop.play]_vars

\* C15: the events of every imported row are non-decreasing in beat.
C15_EventsSortedByBeat ==
  \A r \in DOMAIN table :
    \A k \in 1..(Len(table[r].events) - 1) :
      table[r].events[k].beat <= table[r].events[k + 1].beat

\* C16: for every imported row with events, the beat of its last event is
\* at most measures * beats_per_measure (beats are in quarters here).
C16_LastBeatWithinMeasures ==
  \A r \in DOMAIN table :
    Len(table[r].events) > 0 =>
      table[r].events[Len(table[r].events)].beat
        <= table[r].measures * table[r].beats_per_measure * Res

\* C17: no row is stored for a file without note-on messages.
C17_NoRowWithoutNotes ==
  \A r \in DOMAIN table : Len(table[r].events) > 0

\* C18: a pass of the wrap loop that does not end the block takes a cycle
\* length > 0 off the window end, so that the passes of a block are
\* bounded and the block terminates.
C18_BlockTerminates == cbpc = "p_sub" => last_beat > 0

\* C19: a playing block that ends with a cycle length > 0 leaves
\* beat = (beat before the block + beats_per_process) mod cycle length.
C19_BeatAdvancesModCycle ==
  [][(cbpc = "p_adv" /\ cbpc' = "idle" /\ last_beat > 0)
       => beat' = lb0 % last_beat]_vars

Min(a, b) == IF a < b THEN a ELSE b

\* the events the wrap loop's step (a) gathers for a pass
SpecGathered ==
  LET armed == SelectSeq(loops, LAMBDA l : l.play)
  IN  Flatten([i \in DOMAIN armed |->
                 EventsBetween(armed[i], beat, Min(lb, last_beat))])

\* C20: the events a pass is about to write are the events e of the armed
\* loops with beat <= e.beat < min(window end, cycle length).
C20_PassWritesWindow == cbpc = "p_write" => evts = SpecGathered

RECURSIVE InsertByBeat(_, _)
\* e put behind every event of s that is not later than e
InsertByBeat(e, s) ==
  IF Len(s) = 0 THEN <<e>>
  ELSE IF e.beat < Head(s).beat THEN <<e>> \o s
  ELSE <<Head(s)>> \o InsertByBeat(e, Tail(s))

RECURSIVE StableByBeat(_)
\* s in ascending beat, events of one beat in the order they have in s
StableByBeat(s) ==
  IF Len(s) = 0 THEN << >>
  ELSE InsertByBeat(s[Len(s)], StableByBeat(SubSeq(s, 1, Len(s) - 1)))

\* C21: a pass writes the gathered events in ascending beat, and events of
\* one beat in the order they were gathered (the order of the loops, then
\* the position in the loop), whatever their payloads are.
C21_WriteOrderIsStable ==
  [][(cbpc = "p_write" /\ cbpc' = "p_cmp")
       => Msgs(out') = Msgs(StableByBeat(evts))]_vars

\* a step of the bpm setter that writes samples_per_beat (lines 55, 120-121)
\* or beats_per_process (lines 122-123)
RescaleStep == cop' = "set_bpm" /\ cpc' # cpc

\* C22: samples_per_beat and beats_per_process are written only while no
\* playing block is in progress.
C22_RescaleOutsideBlocks == [][RescaleStep => cbpc \notin PlayPcs]_vars

\* C23: a playing block that finds no loop armed ends at its check: it
\* writes nothing, does not clear the sink's buffer and leaves beat, the
\* cycle length and the state as they were.
C23_UnarmedBlockIsSilent ==
  [][(cbpc = "p_active" /\ ~AnyLoopActive /\ cbpc' # cbpc)
       => /\ cbpc' = "idle" /\ alive'
          /\ out = << >> /\ out' = << >>
          /\ ~cleared' /\ last_offset' = None
          /\ beat' = beat /\ last_beat' = last_beat /\ state' = state]_vars

\* a playing block of a PLAYING transport that holds loops is at its check
\* and none of the loops is armed
C23_Witness ==
  /\ cbpc = "p_active" /\ ~AnyLoopActive
  /\ state = PLAYING /\ rpc = PlayCb /\ loops # << >>

\* C24: no load ends with the IndexError of a loop without events: loading
\* such a loop returns normally.
C24_EmptyLoopLoads ==
  (cpc = "done" /\ cop \in LoadOps) => cres # "IndexError"

\* C25: the sample offsets of the writes of one block are non-decreasing
\* in the order of the writes, over all passes of the block.
C25_OffsetsNonDecreasing ==
  [][(cbpc = "p_write" /\ cbpc' = "p_cmp")
       => /\ \A i \in 1..(Len(out') - 1) : out'[i].offset <= out'[i + 1].offset
          /\ last_offset # None => last_offset <= out'[1].offset]_vars

\* the events of the armed loops
ArmedEvents ==
  LET armed == SelectSeq(loops, LAMBDA l : l.play)
  IN  Flatten([i \in DOMAIN armed |-> LoopEvents(armed[i])])

\* C26: when calls and blocks alternate, no traversal of the cycle ends
\* with an event of an armed loop still ahead: at the wrap every armed
\* event lies before the end of the window that was gathered.
C26_NoEventSkipped ==
  (test /\ cbpc = "p_sub") =>
     \A k \in DOMAIN ArmedEvents : ArmedEvents[k].beat < lb

\* C27: whenever neither a call nor a block is in progress, the state is
\* INACTIVE exactly if the null behaviour is installed, and PLAYING exactly
\* if the playing behaviour or the drain is.
C27_StateMatchesBehaviour ==
  (cpc = "idle" /\ cbpc = "idle") =>
     /\ state = INACTIVE <=> rpc = NullCb
     /\ state = PLAYING <=> rpc \in {PlayCb, StopCb}

\* C28: whenever the state is INACTIVE, beat is 0.
C28_InactiveAtBeatZero == state = INACTIVE => beat = 0

====
